---- MODULE Spec2Model ----
(***************************************************************************)
(* A model of the resilience layer of InterviewGenie:                      *)
(*   - GeminiConnectionManager (src/src/services/GeminiConnectionManager.ts)*)
(*   - AudioManager            (src/src/services/AudioManager.ts)          *)
(* Every async function is cut at its await points; what runs between two  *)
(* suspension points (a callback and the promise continuations it wakes)   *)
(* is one atomic action, as on the single-threaded JavaScript event loop.  *)
(***************************************************************************)
EXTENDS Integers, Sequences, FiniteSets, TLC

\* ------------------------------------------------------------------ bounds
\* sockets / async call chains / messages / clock ticks explored by Spec
MaxSockets == 2
MaxChains == 2
MaxMsgs == 2
\* sendMessage() calls / clock ticks explored by SpecRate
RateMsgs == 101
RateTicks == 1
\* sockets explored by SpecRetry (no socket ever opens)
RetrySockets == 7
\* sockets / chains explored by SpecRace
RaceSockets == 11
RaceChains == 7
\* one clock tick, in milliseconds
TickMs == 60000
\* async call chains of the audio pipeline (user calls and callback chains)
MaxTasks == 2
\* nesting depth of attemptRecovery() that is counted exactly
MaxDepth == 1
\* handler functions the application subscribes to the dispatcher
MaxHandlers == 3
\* once() registrations
MaxOnce == 2
\* callbacks subscribed at once, over all keys
MaxSubs == 3
\* samples of one audio block
MaxBlock == 3
\* text parts of one inbound content frame
MaxParts == 2
\* consecutive failed stream acquisitions that are counted exactly
MaxFailRun == 4
\* live resources the pipeline no longer references that are counted
MaxLeaked == 1
\* audio call chains explored by SpecCleanup
CleanupTasks == 3
\* audio call chains explored by SpecBlocks
BlockTasks == 3

\* ------------------------------------------------- program constants (Gemini)
maxReconnectAttempts == 5
reconnectBaseDelay == 1000
maxReconnectDelay == 30000
maxMessagesPerMinute == 100
messageWindow == 60000
NormalClosure == 1000
AbnormalClosure == 1006
GoingAway == 1001

\* -------------------------------------------------- program constants (Audio)
maxRetries == 3
\* amplitudes are integers in units of 1/FullScale: 1.0 is FullScale and the
\* clipping threshold 0.99 is ClipLevel
FullScale == 100
ClipLevel == 99
recoveryBaseDelay == 1000
maxRecoveryDelay == 30000

Min(a, b) == IF a < b THEN a ELSE b

RECURSIVE Pow2(_)
Pow2(n) == IF n = 0 THEN 1 ELSE 2 * Pow2(n - 1)

VARIABLES
    status,             \* GeminiConnectionManager.status
    ws,                 \* GeminiConnectionManager.ws: a socket id, 0 = null
    messageQueue,       \* GeminiConnectionManager.messageQueue
    reconnectAttempts,  \* GeminiConnectionManager.reconnectAttempts
    sessionConfig,      \* GeminiConnectionManager.sessionConfig, 0 = null
    heartbeatInterval,  \* TRUE iff the setInterval handle is non-null
    messageTimestamps,  \* GeminiConnectionManager.messageTimestamps
    sockets,            \* every WebSocket created so far
    chains,             \* every connect()/reconnection promise chain so far
    wire,               \* frames handed to ws.send() without an exception
    calls,              \* Date.now() at every sendMessage() call so far
    emitted,            \* events emitted by the last action, in order
    last,               \* the last action and its outcome
    now                 \* Date.now()

gvars == <<status, ws, messageQueue, reconnectAttempts, sessionConfig,
           heartbeatInterval, messageTimestamps, sockets, chains, wire,
           calls, emitted, last, now>>

VARIABLES
    audioStatus,        \* AudioManager.status
    audioContext,       \* AudioManager.audioContext: "null", "open" or "closing"
    mediaStreamSource,  \* TRUE iff AudioManager.mediaStreamSource is non-null
    processor,          \* TRUE iff AudioManager.processor is non-null
    stream,             \* AudioManager.stream: "null", "live" or "ended"
    retryCount,         \* AudioManager.retryCount
    currentConfig,      \* AudioManager.currentConfig (0 = the default config)
    listeners,          \* TRUE iff the dispatcher has subscribed handlers
    leakedContexts,     \* open AudioContexts the manager no longer references
    leakedStreams,      \* live MediaStreams the manager no longer references
    leakedProcessors,   \* connected processors the manager no longer references
    tasks,              \* every async call chain of the pipeline so far
    failRun,            \* stream acquisitions that failed in a row
    audioEmitted,       \* events emitted by the last audio action, in order
    audioLast           \* the last audio action and its outcome

avars == <<audioStatus, audioContext, mediaStreamSource, processor, stream,
           retryCount, currentConfig, listeners, leakedContexts, leakedStreams,
           leakedProcessors, tasks, failRun, audioEmitted, audioLast>>

VARIABLES
    listenerMap,        \* EventDispatcher.listeners: per key, its callbacks in
                        \* insertion order (no entry = the empty sequence)
    invoked,            \* the callbacks run by the last dispatcher action, in
                        \* the order they were entered
    onceCount,          \* onceWrapper closures created so far
    dispLast            \* the emit() call the last dispatcher action made,
                        \* if it was one, and its outcome

dvars == <<listenerMap, invoked, onceCount, dispLast>>

VARIABLES
    inputData,          \* the samples of the last audio block measured
    metrics             \* what calculateAudioMetrics returned for them

mvars == <<inputData, metrics>>

vars == <<gvars, avars, dvars, mvars>>

\* ------------------------------------------------------- the manager as a value
Mgr ==
    [status |-> status, ws |-> ws, messageQueue |-> messageQueue,
     reconnectAttempts |-> reconnectAttempts, sessionConfig |-> sessionConfig,
     heartbeatInterval |-> heartbeatInterval,
     messageTimestamps |-> messageTimestamps, sockets |-> sockets,
     chains |-> chains, wire |-> wire, emitted |-> <<>>, tried |-> <<>>]

\* an emitted event: its key and what its payload carries (text is a
\* sequence of characters)
StatusEv(s) ==
    [ev |-> "statusChange", status |-> s, recoverable |-> FALSE, code |-> 0,
     content |-> <<>>]
ErrorEv(rec, code) ==
    [ev |-> "error", status |-> "", recoverable |-> rec, code |-> code,
     content |-> <<>>]
MessageEv(content) ==
    [ev |-> "message", status |-> "", recoverable |-> FALSE, code |-> 0,
     content |-> content]
InterruptedEv ==
    [ev |-> "interrupted", status |-> "", recoverable |-> FALSE, code |-> 0,
     content |-> <<>>]

emit(m, e) == [m EXCEPT !.emitted = Append(@, e)]

updateStatus(m, newStatus) == emit([m EXCEPT !.status = newStatus], StatusEv(newStatus))

\* cfg: the session config the socket URL was built from
NewSocket(cfg) == [rs |-> "connecting", timer |-> TRUE, closeCode |-> 0, cfg |-> cfg]
NewChain(kind) == [kind |-> kind, pc |-> "start", sock |-> 0, n |-> 0, delay |-> 0]

\* the promise of establishConnection for socket s is still pending
Awaiting(m, s) ==
    \E c \in 1..Len(m.chains) : m.chains[c].pc = "open" /\ m.chains[c].sock = s

\* the chain whose establishConnection promise belongs to socket s
Owner(m, s) ==
    CHOOSE c \in 1..Len(m.chains) : m.chains[c].pc = "open" /\ m.chains[c].sock = s

\* variant: the delay grows linearly
backoffDelay_Linear(attempts) ==
    Min(reconnectBaseDelay * (attempts + 1), maxReconnectDelay)

backoffDelay(attempts) ==
    Min(reconnectBaseDelay * Pow2(attempts), maxReconnectDelay)

attemptReconnection(m, c) ==
    LET m1 == updateStatus(m, "reconnecting")
    IN [m1 EXCEPT !.chains[c].pc = "backoff",
                  !.chains[c].sock = 0,
                  !.chains[c].delay = backoffDelay(m1.reconnectAttempts)]

settle(m, c, how) ==
    [m EXCEPT !.chains[c].pc = how, !.chains[c].sock = 0, !.chains[c].delay = 0]

\* variant: the retry budget test is off by one
handleConnectionError_OffByOne(m, c) ==
    LET m1 == emit(m, ErrorEv(TRUE, 0))
    IN IF m1.reconnectAttempts <= maxReconnectAttempts
       THEN attemptReconnection(m1, c)
       ELSE settle(updateStatus(m1, "error"), c, "rejected")

\* createError() returns a plain object, so `error instanceof Error` is false
\* and every error handled here is rebuilt as recoverable.
handleConnectionError(m, c) ==
    LET m1 == emit(m, ErrorEv(TRUE, 0))
    IN IF m1.reconnectAttempts < maxReconnectAttempts
       THEN attemptReconnection(m1, c)
       ELSE LET m2 == updateStatus(m1, "error")
            IN settle(m2, c, "rejected")

establishConnection(m, c) ==
    IF m.sessionConfig = 0
    THEN handleConnectionError(m, c)
    ELSE LET s == Len(m.sockets) + 1
         IN [m EXCEPT !.sockets = Append(@, NewSocket(m.sessionConfig)),
                      !.ws = s,
                      !.chains[c].pc = "open",
                      !.chains[c].sock = s,
                      !.chains[c].n = @ + 1]

filterTimestamps(m) ==
    [m EXCEPT !.messageTimestamps =
        SelectSeq(@, LAMBDA t : now - t < messageWindow)]

\* variant: the cap test admits one message too many
canSendMessage_Inclusive(m) ==
    Len(filterTimestamps(m).messageTimestamps) <= maxMessagesPerMinute

canSendMessage(m) ==
    Len(filterTimestamps(m).messageTimestamps) < maxMessagesPerMinute

\* variant: a message whose send failed is pushed to the tail, not the head
RECURSIVE flushLoop_Requeue(_)
flushLoop_Requeue(m) ==
    IF Len(m.messageQueue) = 0
    THEN [m |-> m, threw |-> FALSE]
    ELSE LET f == filterTimestamps(m)
         IN IF ~canSendMessage(m)
            THEN [m |-> f, threw |-> FALSE]
            ELSE LET request == Head(f.messageQueue)
                     rs == f.sockets[f.ws].rs
                     t == [f EXCEPT !.tried = Append(@, request)]
                 IN IF rs = "connecting"
                    THEN [m |-> [t EXCEPT !.messageQueue = Append(Tail(@), request)],
                          threw |-> TRUE]
                    ELSE flushLoop_Requeue([t EXCEPT
                            !.messageQueue = Tail(@),
                            !.messageTimestamps = Append(@, now),
                            !.wire = Append(@, [msg |-> request,
                                                sock |-> f.ws,
                                                delivered |-> rs = "open",
                                                at |-> now])])

\* ws.send() throws InvalidStateError on a CONNECTING socket and silently
\* discards the frame on a CLOSING or CLOSED one.
RECURSIVE flushLoop(_)
flushLoop(m) ==
    IF Len(m.messageQueue) = 0
    THEN [m |-> m, threw |-> FALSE]
    ELSE LET f == filterTimestamps(m)
         IN IF ~canSendMessage(m)
            THEN [m |-> f, threw |-> FALSE]
            ELSE LET request == Head(f.messageQueue)
                     rs == f.sockets[f.ws].rs
                     t == [f EXCEPT !.tried = Append(@, request)]
                 IN IF rs = "connecting"
                    THEN [m |-> t, threw |-> TRUE]
                    ELSE flushLoop([t EXCEPT
                            !.messageQueue = Tail(@),
                            !.messageTimestamps = Append(@, now),
                            !.wire = Append(@, [msg |-> request,
                                                sock |-> f.ws,
                                                delivered |-> rs = "open",
                                                at |-> now])])

processMessageQueue(m) ==
    IF m.status # "connected" \/ m.ws = 0 \/ Len(m.messageQueue) = 0
    THEN [m |-> m, threw |-> FALSE]
    ELSE flushLoop(m)

onConnectionEstablished(m) ==
    LET m1 == updateStatus(m, "connected")
        m2 == [m1 EXCEPT !.reconnectAttempts = 0]
    IN processMessageQueue(m2).m

clearHeartbeat(m) == [m EXCEPT !.heartbeatInterval = FALSE]

setupHeartbeat(m) == [clearHeartbeat(m) EXCEPT !.heartbeatInterval = TRUE]

\* variant: the outbound queue is kept
cleanup_KeepQueue(m) ==
    LET m1 == clearHeartbeat(m)
        m2 == [m1 EXCEPT !.messageTimestamps = <<>>]
        m3 == IF m2.ws # 0
              THEN LET m2c == IF m2.sockets[m2.ws].rs = "open"
                              THEN [m2 EXCEPT !.sockets[m2.ws].rs = "closing",
                                              !.sockets[m2.ws].closeCode = NormalClosure]
                              ELSE m2
                   IN [m2c EXCEPT !.ws = 0]
              ELSE m2
    IN updateStatus(m3, "disconnected")

\* variant: nothing is done when no socket is held
cleanup_OnlyIfSocket(m) ==
    IF m.ws = 0 THEN m
    ELSE LET m1 == clearHeartbeat(m)
             m2 == [m1 EXCEPT !.messageQueue = <<>>, !.messageTimestamps = <<>>]
             m2c == IF m2.sockets[m2.ws].rs = "open"
                    THEN [m2 EXCEPT !.sockets[m2.ws].rs = "closing",
                                    !.sockets[m2.ws].closeCode = NormalClosure]
                    ELSE m2
         IN updateStatus([m2c EXCEPT !.ws = 0], "disconnected")

\* variant: the session config is dropped with the socket
cleanup_ClearConfig(m) ==
    LET m1 == clearHeartbeat(m)
        m2 == [m1 EXCEPT !.messageQueue = <<>>, !.messageTimestamps = <<>>,
                         !.sessionConfig = 0]
        m3 == IF m2.ws # 0
              THEN LET m2c == IF m2.sockets[m2.ws].rs = "open"
                              THEN [m2 EXCEPT !.sockets[m2.ws].rs = "closing",
                                              !.sockets[m2.ws].closeCode = NormalClosure]
                              ELSE m2
                   IN [m2c EXCEPT !.ws = 0]
              ELSE m2
    IN updateStatus(m3, "disconnected")

cleanup(m) ==
    LET m1 == clearHeartbeat(m)
        m2 == [m1 EXCEPT !.messageQueue = <<>>, !.messageTimestamps = <<>>]
        m3 == IF m2.ws # 0
              THEN LET m2c == IF m2.sockets[m2.ws].rs = "open"
                              THEN [m2 EXCEPT !.sockets[m2.ws].rs = "closing",
                                              !.sockets[m2.ws].closeCode = NormalClosure]
                              ELSE m2
                   IN [m2c EXCEPT !.ws = 0]
              ELSE m2
    IN updateStatus(m3, "disconnected")

\* variant: the close code is not looked at
handleWebSocketClose_AnyCode(m, code) ==
    LET wasConnected == m.status = "connected"
        m1 == updateStatus(m, "disconnected")
    IN IF wasConnected
       THEN handleConnectionError(
                [m1 EXCEPT !.chains = Append(@, NewChain("close"))],
                Len(m1.chains) + 1)
       ELSE m1

\* handleWebSocketClose; a reconnection it starts is a new promise chain
\* that nobody awaits (void this.handleConnectionError(...)).
handleWebSocketClose(m, code) ==
    LET wasConnected == m.status = "connected"
        m1 == updateStatus(m, "disconnected")
    IN IF wasConnected /\ code # NormalClosure
       THEN LET c == Len(m1.chains) + 1
                m2 == [m1 EXCEPT !.chains = Append(@, NewChain("close"))]
            IN handleConnectionError(m2, c)
       ELSE m1

\* variant: a connect() whose initial attempt failed rejects all the same
resolveOpen_RejectsRetry(m, s) ==
    IF Awaiting(m, s)
    THEN LET c == Owner(m, s)
         IN IF m.chains[c].kind = "connect" /\ m.chains[c].n = 1
            THEN settle(setupHeartbeat(m), c, "resolved")
            ELSE settle(m, c, "rejected")
    ELSE m

\* the continuation of `await this.establishConnection()` once it resolves
resolveOpen(m, s) ==
    IF Awaiting(m, s)
    THEN LET c == Owner(m, s)
             m1 == IF m.chains[c].kind = "connect" /\ m.chains[c].n = 1
                   THEN setupHeartbeat(m)
                   ELSE m
         IN settle(m1, c, "resolved")
    ELSE m

\* ... and once it rejects
rejectOpen(m, s) ==
    IF Awaiting(m, s) THEN handleConnectionError(m, Owner(m, s)) ELSE m

\* --------------------------------------------------------- inbound frames
\* What JSON.parse(event.data) yields, as far as handleWebSocketMessage
\* looks at it:
\*   "unparsable"  JSON.parse throws
\*   "content"     BidiGenerateContentServerContent is present; hasTurn says
\*                 whether it has a model_turn; a part is [defined, text],
\*                 defined = FALSE for a part without a text field
\*   "error"       BidiGenerateContentResponse is present with a message
\*                 and this code
\*   "other"       an object with neither key
NoFrame ==
    [kind |-> "none", hasTurn |-> FALSE, parts |-> <<>>, interrupted |-> FALSE,
     code |-> 0]

\* variant: the parts are joined last to first
RECURSIVE joinParts_Reversed(_)
joinParts_Reversed(parts) ==
    IF parts = <<>>
    THEN <<>>
    ELSE joinParts_Reversed(Tail(parts)) \o
         (IF Head(parts).defined THEN Head(parts).text ELSE <<>>)

\* model_turn.parts.map(part => part.text).join(''): join writes the empty
\* string for an undefined element
RECURSIVE joinParts(_)
joinParts(parts) ==
    IF parts = <<>>
    THEN <<>>
    ELSE (IF Head(parts).defined THEN Head(parts).text ELSE <<>>) \o
         joinParts(Tail(parts))

\* variant: every client error (4xx) is recoverable too
handleResponseError_From400(m, response) ==
    emit(m, ErrorEv(response.code >= 400, response.code))

\* handleResponseError(response)
handleResponseError(m, response) ==
    emit(m, ErrorEv(response.code >= 500, response.code))

\* variant: the parse error is reported as recoverable
parseError_Recoverable(m) == emit(m, ErrorEv(TRUE, 0))

\* the catch block of handleWebSocketMessage
parseError(m) == emit(m, ErrorEv(FALSE, 0))

\* handleWebSocketMessage(event)
handleWebSocketMessage(m, frame) ==
    IF frame.kind = "unparsable"
    THEN parseError(m)
    ELSE IF frame.kind = "content"
    THEN IF ~frame.hasTurn
         THEN \* model_turn.parts throws a TypeError inside the try block
              parseError(m)
         ELSE LET m1 == emit(m, MessageEv(joinParts(frame.parts)))
              IN IF frame.interrupted THEN emit(m1, InterruptedEv) ELSE m1
    ELSE IF frame.kind = "error" /\ frame.code # 0
    THEN handleResponseError(m, frame)
    ELSE m

\* the chain that settled between m0 and m1, 0 if none
Settled(m0, m1) ==
    LET S == {c \in 1..Len(m1.chains) :
                /\ m1.chains[c].pc \in {"resolved", "rejected"}
                /\ (c > Len(m0.chains) \/ m0.chains[c].pc \notin {"resolved", "rejected"})}
    IN IF S = {} THEN 0 ELSE CHOOSE c \in S : TRUE

\* what an action reports about itself: the operation, the socket it is
\* about, its outcome, the close code delivered, and the recoverable flag
\* of the error a rejected call carries
Info(op, sock, res) ==
    [op |-> op, sock |-> sock, res |-> res, code |-> 0, rec |-> FALSE,
     frame |-> NoFrame]

Commit(m, info) ==
    /\ status' = m.status
    /\ ws' = m.ws
    /\ messageQueue' = m.messageQueue
    /\ reconnectAttempts' = m.reconnectAttempts
    /\ sessionConfig' = m.sessionConfig
    /\ heartbeatInterval' = m.heartbeatInterval
    /\ messageTimestamps' = m.messageTimestamps
    /\ sockets' = m.sockets
    /\ chains' = m.chains
    /\ wire' = m.wire
    /\ emitted' = m.emitted
    /\ last' = [op |-> info.op, sock |-> info.sock, res |-> info.res,
                code |-> info.code, rec |-> info.rec, frame |-> info.frame,
                settled |-> Settled(Mgr, m),
                spawned |-> Len(m.chains) > Len(chains),
                tried |-> m.tried,
                was |-> status,
                rs |-> IF info.sock \in 1..Len(sockets)
                       THEN sockets[info.sock].rs ELSE ""]
    /\ UNCHANGED <<avars, dvars, mvars>>

\* ------------------------------------------------------------------ actions
GInit ==
    /\ status = "disconnected"
    /\ ws = 0
    /\ messageQueue = <<>>
    /\ reconnectAttempts = 0
    /\ sessionConfig = 0
    /\ heartbeatInterval = FALSE
    /\ messageTimestamps = <<>>
    /\ sockets = <<>>
    /\ chains = <<>>
    /\ wire = <<>>
    /\ emitted = <<>>
    /\ calls = <<>>
    /\ last = [op |-> "init", sock |-> 0, res |-> "", code |-> 0, rec |-> FALSE,
               frame |-> NoFrame,
               settled |-> 0, spawned |-> FALSE, tried |-> <<>>,
               was |-> "disconnected", rs |-> ""]
    /\ now = 0

\* AudioManager after getInstance()
AInit ==
    /\ audioStatus = "inactive"
    /\ audioContext = "null"
    /\ mediaStreamSource = FALSE
    /\ processor = FALSE
    /\ stream = "null"
    /\ retryCount = 0
    /\ currentConfig = 0
    /\ listeners = FALSE
    /\ leakedContexts = 0
    /\ leakedStreams = 0
    /\ leakedProcessors = 0
    /\ tasks = <<>>
    /\ failRun = 0
    /\ audioEmitted = <<>>
    /\ audioLast = [op |-> "init", task |-> 0, res |-> "", was |-> "inactive"]

\* new EventDispatcher()
Keys == {"statusChange", "error"}

DInit ==
    /\ listenerMap = [key \in Keys |-> <<>>]
    /\ invoked = <<>>
    /\ onceCount = 0
    /\ dispLast = [op |-> "", key |-> "", data |-> "", returned |-> TRUE]

\* no block measured yet
MInit ==
    /\ inputData = <<>>
    /\ metrics = [computed |-> FALSE, peak |-> 0, sumSquares |-> 0, length |-> 0,
                  clipping |-> FALSE]

Init == GInit /\ AInit /\ DInit /\ MInit

\* variant: connect() does not look at the status
ConnectOp_NoGuard(cfg, maxS, maxC) ==
    /\ Len(sockets) < maxS
    /\ Len(chains) < maxC
    /\ LET c == Len(chains) + 1
           m1 == [Mgr EXCEPT !.sessionConfig = cfg,
                             !.chains = Append(@, NewChain("connect"))]
           m2 == updateStatus(m1, "connecting")
           m3 == establishConnection(m2, c)
       IN Commit(m3, Info("connect", m3.ws, "started"))

\* connect(config)
ConnectOp(cfg, maxS, maxC) ==
    IF status \in {"connected", "connecting"}
    THEN Commit(Mgr, Info("connect", 0, "noop"))
    ELSE /\ Len(sockets) < maxS
         /\ Len(chains) < maxC
         /\ LET c == Len(chains) + 1
                m1 == [Mgr EXCEPT !.sessionConfig = cfg,
                                  !.chains = Append(@, NewChain("connect"))]
                m2 == updateStatus(m1, "connecting")
                m3 == establishConnection(m2, c)
            IN Commit(m3, Info("connect", m3.ws, "started"))

\* the socket's open event: ws.onopen
SocketOpenOp(s) ==
    /\ sockets[s].rs = "connecting"
    /\ LET m1 == [Mgr EXCEPT !.sockets[s].rs = "open", !.sockets[s].timer = FALSE]
           m2 == onConnectionEstablished(m1)
           m3 == resolveOpen(m2, s)
       IN Commit(m3, Info("open", s, ""))

\* the socket fails: ws.onerror; its close event (1006) is delivered later
SocketErrorOp(s) ==
    /\ sockets[s].rs \in {"connecting", "open"}
    /\ LET m1 == [Mgr EXCEPT !.sockets[s].rs = "closed",
                             !.sockets[s].closeCode = AbnormalClosure,
                             !.sockets[s].timer = FALSE]
           m2 == emit(m1, ErrorEv(TRUE, 0))
           m3 == rejectOpen(m2, s)
       IN Commit(m3, Info("error", s, ""))

\* the 10 s connection timeout of socket s fires
TimeoutFireOp(s) ==
    /\ sockets[s].timer
    /\ LET m1 == [Mgr EXCEPT !.sockets[s].timer = FALSE]
           m2 == cleanup(m1)
           m3 == IF Awaiting(m1, s)
                 THEN handleConnectionError(m2, Owner(m1, s))
                 ELSE m2
       IN Commit(m3, Info("timeout", s, ""))

\* the backoff timer of chain c fires: the rest of attemptReconnection
BackoffFireOp(c, maxS) ==
    /\ chains[c].pc = "backoff"
    /\ Len(sockets) < maxS
    /\ LET m1 == [Mgr EXCEPT !.reconnectAttempts = @ + 1]
           m2 == establishConnection(m1, c)
       IN Commit(m2, Info("backoff", m2.ws, ""))

\* a pending close event of socket s is delivered: ws.onclose
SocketCloseOp(s, maxC) ==
    /\ sockets[s].closeCode # 0
    /\ LET code == sockets[s].closeCode
           m1 == [Mgr EXCEPT !.sockets[s].rs = "closed", !.sockets[s].closeCode = 0]
           m2 == handleWebSocketClose(m1, code)
       IN /\ Len(m2.chains) <= maxC
          /\ Commit(m2, [Info("close", s,
                               IF sockets[s].rs = "closing" THEN "requested" ELSE "abnormal")
                          EXCEPT !.code = code])

\* the server closes an open socket with `code`
RemoteCloseOp(s, code, maxC) ==
    /\ sockets[s].rs = "open"
    /\ LET m1 == [Mgr EXCEPT !.sockets[s].rs = "closed"]
           m2 == handleWebSocketClose(m1, code)
       IN /\ Len(m2.chains) <= maxC
          /\ Commit(m2, [Info("close", s, "remote") EXCEPT !.code = code])

\* cleanup() called by the user
CleanupOp ==
    Commit(cleanup(Mgr), Info("cleanup", ws, ""))

\* variant: the payload is pushed onto the queue before the rate check
SendMessageOp_EnqueueFirst(request) ==
    /\ calls' = Append(calls, now)
    /\ LET m1 == filterTimestamps(Mgr)
           m2 == [m1 EXCEPT !.messageQueue = Append(@, request)]
       IN IF ~canSendMessage(Mgr)
          THEN Commit(m2, Info("send", 0, "rateLimited"))
          ELSE LET r == processMessageQueue(m2)
               IN IF r.threw
                  THEN Commit(r.m, [Info("send", 0, "sendFailed") EXCEPT !.rec = TRUE])
                  ELSE Commit(r.m, Info("send", 0, "accepted"))

\* sendMessage(request)
SendMessageOp(request) ==
    /\ calls' = Append(calls, now)
    /\ IF ~canSendMessage(Mgr)
       THEN \* throw createError('Rate limit exceeded', false)
            Commit(filterTimestamps(Mgr), Info("send", 0, "rateLimited"))
       ELSE LET m1 == filterTimestamps(Mgr)
                m2 == [m1 EXCEPT !.messageQueue = Append(@, request)]
                r == processMessageQueue(m2)
            IN IF r.threw
               THEN \* throw createError('Failed to send message', true)
                    Commit(r.m, [Info("send", 0, "sendFailed") EXCEPT !.rec = TRUE])
               ELSE Commit(r.m, Info("send", 0, "accepted"))

\* the heartbeat interval fires
HeartbeatFireOp ==
    /\ heartbeatInterval
    /\ Commit(Mgr, Info("heartbeat", ws,
                         IF ws # 0 /\ sockets[ws].rs = "open" THEN "ping" ELSE "skip"))

\* ws.onmessage of socket s delivers a frame; the handler returns normally
\* whatever the frame is
MessageOp(s, frame) ==
    /\ sockets[s].rs = "open"
    /\ Commit(handleWebSocketMessage(Mgr, frame),
              [Info("message", s, "returned") EXCEPT !.frame = frame])

\* time passes
TickOp ==
    /\ now' = now + TickMs
    /\ last' = [last EXCEPT !.op = "tick", !.sock = 0, !.res = "", !.code = 0,
                            !.rec = FALSE, !.frame = NoFrame, !.settled = 0,
                            !.spawned = FALSE,
                            !.tried = <<>>, !.was = status, !.rs = ""]
    /\ emitted' = <<>>
    /\ UNCHANGED <<status, ws, messageQueue, reconnectAttempts, sessionConfig,
                   heartbeatInterval, messageTimestamps, sockets, chains, wire,
                   calls>>
    /\ UNCHANGED <<avars, dvars, mvars>>

Connect == ConnectOp(Len(chains) + 1, MaxSockets, MaxChains) /\ UNCHANGED <<now, calls>>
SocketOpen == \E s \in 1..Len(sockets) : SocketOpenOp(s) /\ UNCHANGED <<now, calls>>
SocketError == \E s \in 1..Len(sockets) : SocketErrorOp(s) /\ UNCHANGED <<now, calls>>
TimeoutFire == \E s \in 1..Len(sockets) : TimeoutFireOp(s) /\ UNCHANGED <<now, calls>>
BackoffFire == \E c \in 1..Len(chains) : BackoffFireOp(c, MaxSockets) /\ UNCHANGED <<now, calls>>
SocketClose == \E s \in 1..Len(sockets) : SocketCloseOp(s, MaxChains) /\ UNCHANGED <<now, calls>>
RemoteClose ==
    \E s \in 1..Len(sockets), code \in {NormalClosure, GoingAway} :
        RemoteCloseOp(s, code, MaxChains) /\ UNCHANGED <<now, calls>>
Cleanup == CleanupOp /\ UNCHANGED <<now, calls>>
HeartbeatFire == HeartbeatFireOp /\ UNCHANGED <<now, calls>>

Next ==
    \/ Connect
    \/ SocketOpen
    \/ SocketError
    \/ TimeoutFire
    \/ BackoffFire
    \/ SocketClose
    \/ RemoteClose
    \/ Cleanup
    \/ HeartbeatFire

Spec == Init /\ [][Next]_vars

\* ------------------------------------------------------------------------
\* Persistent failure: one connect() call against a network that never lets
\* a socket open.
RConnect ==
    /\ chains = <<>>
    /\ ConnectOp(1, RetrySockets, MaxChains)
    /\ UNCHANGED <<now, calls>>
RSocketError == \E s \in 1..Len(sockets) : SocketErrorOp(s) /\ UNCHANGED <<now, calls>>
RTimeoutFire == \E s \in 1..Len(sockets) : TimeoutFireOp(s) /\ UNCHANGED <<now, calls>>
RBackoffFire == \E c \in 1..Len(chains) : BackoffFireOp(c, RetrySockets) /\ UNCHANGED <<now, calls>>
RSocketClose == \E s \in 1..Len(sockets) : SocketCloseOp(s, MaxChains) /\ UNCHANGED <<now, calls>>
RCleanup == CleanupOp /\ UNCHANGED <<now, calls>>

NextRetry ==
    \/ RConnect
    \/ RSocketError
    \/ RTimeoutFire
    \/ RBackoffFire
    \/ RSocketClose
    \/ RCleanup

SpecRetry == Init /\ [][NextRetry]_vars

\* ------------------------------------------------------------------------
\* The outbound queue: sendMessage() against connections that open, time
\* out and are retried.
QConnect == ConnectOp(Len(chains) + 1, MaxSockets, MaxChains) /\ UNCHANGED <<now, calls>>
QSocketOpen == \E s \in 1..Len(sockets) : SocketOpenOp(s) /\ UNCHANGED <<now, calls>>
QTimeoutFire == \E s \in 1..Len(sockets) : TimeoutFireOp(s) /\ UNCHANGED <<now, calls>>
QBackoffFire == \E c \in 1..Len(chains) : BackoffFireOp(c, MaxSockets) /\ UNCHANGED <<now, calls>>
QCleanup == CleanupOp /\ UNCHANGED <<now, calls>>
QSendMessage ==
    /\ Len(calls) < MaxMsgs
    /\ SendMessageOp(Len(calls) + 1)
    /\ UNCHANGED now

NextQueue ==
    \/ QConnect
    \/ QSocketOpen
    \/ QTimeoutFire
    \/ QBackoffFire
    \/ QCleanup
    \/ QSendMessage

SpecQueue == Init /\ [][NextQueue]_vars

\* ------------------------------------------------------------------------
\* The rate limit: sendMessage() calls against a manager that is either
\* never connected or connected before the first call.
RateConnect ==
    /\ calls = <<>>
    /\ ConnectOp(1, MaxSockets, MaxChains)
    /\ UNCHANGED <<now, calls>>
RateSocketOpen ==
    /\ calls = <<>>
    /\ \E s \in 1..Len(sockets) : SocketOpenOp(s)
    /\ UNCHANGED <<now, calls>>
RateSendMessage ==
    /\ status \in {"disconnected", "connected"}
    /\ Len(calls) < RateMsgs
    /\ SendMessageOp(Len(calls) + 1)
    /\ UNCHANGED now
RateTick ==
    /\ now < RateTicks * TickMs
    /\ TickOp

NextRate ==
    \/ RateConnect
    \/ RateSocketOpen
    \/ RateSendMessage
    \/ RateTick

SpecRate == Init /\ [][NextRate]_vars

\* ------------------------------------------------------------------------
\* Overlapping connect() calls: the user calls connect() again whenever the
\* manager is not Connected/Connecting, only the first socket of a connect()
\* call fails or opens, and the backoff timers (1 s or more) fire once a
\* connection is up.
RaceConnect ==
    ConnectOp(Len(chains) + 1, RaceSockets, RaceChains) /\ UNCHANGED <<now, calls>>
RaceSocketError ==
    /\ status = "connecting"
    /\ ws # 0
    /\ SocketErrorOp(ws)
    /\ UNCHANGED <<now, calls>>
RaceSocketOpen ==
    /\ status = "connecting"
    /\ ws # 0
    /\ SocketOpenOp(ws)
    /\ UNCHANGED <<now, calls>>
RaceBackoffFire ==
    /\ status = "connected"
    /\ \E c \in 1..Len(chains) : BackoffFireOp(c, RaceSockets)
    /\ UNCHANGED <<now, calls>>
RaceRemoteClose ==
    /\ \E s \in 1..Len(sockets) : RemoteCloseOp(s, GoingAway, RaceChains)
    /\ UNCHANGED <<now, calls>>

NextRace ==
    \/ RaceConnect
    \/ RaceSocketError
    \/ RaceSocketOpen
    \/ RaceBackoffFire
    \/ RaceRemoteClose

SpecRace == Init /\ [][NextRace]_vars

\* ------------------------------------------------------------------------
\* The rate window across sessions: the user sends while Connected, calls
\* cleanup() and connects again, all within one minute.
ResetConnect ==
    /\ status = "disconnected"
    /\ ConnectOp(Len(chains) + 1, MaxSockets, MaxChains)
    /\ UNCHANGED <<now, calls>>
ResetSocketOpen ==
    /\ \E s \in 1..Len(sockets) : SocketOpenOp(s)
    /\ UNCHANGED <<now, calls>>
ResetSendMessage ==
    /\ status = "connected"
    /\ Len(calls) < RateMsgs
    /\ SendMessageOp(Len(calls) + 1)
    /\ UNCHANGED now
ResetCleanup ==
    /\ status = "connected"
    /\ CleanupOp
    /\ UNCHANGED <<now, calls>>

NextRateReset ==
    \/ ResetConnect
    \/ ResetSocketOpen
    \/ ResetSendMessage
    \/ ResetCleanup

SpecRateReset == Init /\ [][NextRateReset]_vars

\* ------------------------------------------------------------------------
\* A backlog: the user sends while Connected, the server closes the
\* connection normally, the user queues a few more messages, connects again
\* and from then on calls sendMessage no more; the socket opens, sends
\* succeed, the heartbeat interval keeps firing and a minute passes.
FlushSendMessage ==
    /\ Len(chains) = 1
    /\ \/ status = "connected"
       \/ status = "disconnected" /\ Len(messageQueue) < MaxMsgs
    /\ Len(calls) < RateMsgs
    /\ SendMessageOp(Len(calls) + 1)
    /\ UNCHANGED now
FlushConnect ==
    /\ status = "disconnected"
    /\ ConnectOp(Len(chains) + 1, MaxSockets, MaxChains)
    /\ UNCHANGED <<now, calls>>
FlushSocketOpen ==
    /\ \E s \in 1..Len(sockets) : SocketOpenOp(s)
    /\ UNCHANGED <<now, calls>>
FlushRemoteClose ==
    /\ Len(chains) = 1
    /\ \E s \in 1..Len(sockets) : RemoteCloseOp(s, NormalClosure, MaxChains)
    /\ UNCHANGED <<now, calls>>
FlushHeartbeatFire == HeartbeatFireOp /\ UNCHANGED <<now, calls>>
FlushTick ==
    /\ status = "connected"
    /\ Len(chains) > 1
    /\ now < RateTicks * TickMs
    /\ TickOp

NextFlush ==
    \/ FlushSendMessage
    \/ FlushConnect
    \/ FlushSocketOpen
    \/ FlushRemoteClose
    \/ FlushHeartbeatFire
    \/ FlushTick

\* the interval timer fires and the clock advances; whether and when the
\* network opens the socket is not the manager's to guarantee
FairSpecFlush ==
    /\ Init
    /\ [][NextFlush]_vars
    /\ WF_vars(FlushHeartbeatFire)
    /\ WF_vars(FlushTick)

\* ------------------------------------------------------------------------
\* The receive path: the frames the handler is fed, on any open socket.
PartTexts == {<<"H", "i">>, <<" ", "t", "h", "e", "r", "e">>}
Parts ==
    [defined : {TRUE}, text : PartTexts] \cup {[defined |-> FALSE, text |-> <<>>]}
PartLists == UNION {[1..n -> Parts] : n \in 0..MaxParts}
Codes == {0, 400, 499, 500, 503}
Frames ==
    [kind : {"content"}, hasTurn : {TRUE}, parts : PartLists,
     interrupted : BOOLEAN, code : {0}]
    \cup [kind : {"content"}, hasTurn : {FALSE}, parts : {<<>>},
          interrupted : BOOLEAN, code : {0}]
    \cup [kind : {"error"}, hasTurn : {FALSE}, parts : {<<>>},
          interrupted : {FALSE}, code : Codes]
    \cup [kind : {"unparsable", "other"}, hasTurn : {FALSE}, parts : {<<>>},
          interrupted : {FALSE}, code : {0}]

InConnect == ConnectOp(Len(chains) + 1, MaxSockets, MaxChains) /\ UNCHANGED <<now, calls>>
InSocketOpen == \E s \in 1..Len(sockets) : SocketOpenOp(s) /\ UNCHANGED <<now, calls>>
InMessage ==
    \E s \in 1..Len(sockets), frame \in Frames :
        MessageOp(s, frame) /\ UNCHANGED <<now, calls>>
InCleanup == CleanupOp /\ UNCHANGED <<now, calls>>

NextInbound ==
    \/ InConnect
    \/ InSocketOpen
    \/ InMessage
    \/ InCleanup

SpecInbound == Init /\ [][NextInbound]_vars

\* ========================================================================
\* AudioManager (src/src/services/AudioManager.ts)
\* ========================================================================
\* A task is one async call chain: a user call (initialize, startAudio,
\* cleanup/stopAudio) or a `void this.handleError(..)` started by a callback.
\* pc is the await the chain is suspended at; depth is the number of
\* attemptRecovery() frames enclosing the running initialize(); stage tells
\* where in startAudio() the chain is ("body": its first initialize(),
\* "mic": setupMicrophoneStream(), "catch": its catch block).
Aud ==
    [status |-> audioStatus, audioContext |-> audioContext,
     mediaStreamSource |-> mediaStreamSource, processor |-> processor,
     stream |-> stream, retryCount |-> retryCount,
     currentConfig |-> currentConfig, listeners |-> listeners,
     leakedContexts |-> leakedContexts, leakedStreams |-> leakedStreams,
     leakedProcessors |-> leakedProcessors, tasks |-> tasks,
     failRun |-> failRun, emitted |-> <<>>]

NewTask(kind, src) ==
    [kind |-> kind, src |-> src,
     stage |-> IF kind = "startAudio" THEN "body" ELSE "",
     pc |-> "start", depth |-> 0, delay |-> 0]

ContextCreationFailed == [type |-> "CONTEXT_CREATION_FAILED", recoverable |-> FALSE]
StreamCreationFailed == [type |-> "STREAM_CREATION_FAILED", recoverable |-> TRUE]
PipelineSetupFailed == [type |-> "PIPELINE_SETUP_FAILED", recoverable |-> FALSE]
StreamEnded == [type |-> "STREAM_ENDED", recoverable |-> TRUE]
UnknownError == [type |-> "UNKNOWN", recoverable |-> TRUE]

\* EventDispatcher.emit: the event reaches a handler iff one is subscribed
emitAudio(a, ev, st, err) ==
    [a EXCEPT !.emitted = Append(@, [ev |-> ev, status |-> st,
                                     type |-> err.type,
                                     recoverable |-> err.recoverable,
                                     heard |-> a.listeners])]

NoError == [type |-> "", recoverable |-> FALSE]

updateAudioStatus(a, s) ==
    emitAudio([a EXCEPT !.status = s], "statusChange", s, NoError)

\* The catch blocks the rejection of task k's handleError() passes through:
\* one per enclosing attemptRecovery(), and startAudio()'s own while its
\* first initialize() is running.  Each calls handleError() again.
Catchers(task) ==
    task.depth + (IF task.kind = "startAudio" /\ task.stage = "body" THEN 1 ELSE 0)

RECURSIVE rethrow(_, _, _)
rethrow(a, err, n) ==
    IF n = 0 THEN a
    ELSE rethrow(updateAudioStatus(emitAudio(a, "error", "", err), "error"),
                 err, n - 1)

recoveryDelay(retries) == Min(recoveryBaseDelay * Pow2(retries), maxRecoveryDelay)

\* cleanup(), up to the await on audioContext.close()
releaseResources(a) ==
    [a EXCEPT !.listeners = FALSE, !.processor = FALSE,
              !.mediaStreamSource = FALSE, !.stream = "null"]

\* cleanup(), after the await on audioContext.close()
finishCleanup(a) ==
    LET a1 == [a EXCEPT !.audioContext = "null",
                        !.leakedContexts =
                            @ + (IF a.audioContext = "open" THEN 1 ELSE 0)]
        a2 == updateAudioStatus(a1, "inactive")
    IN  [a2 EXCEPT !.retryCount = 0]

\* what task k does once its cleanup() has returned
afterCleanup(a, k) ==
    IF a.tasks[k].kind = "cleanup"
    THEN [a EXCEPT !.tasks[k].pc = "resolved"]
    ELSE [a EXCEPT !.tasks[k].pc = "delay",
                   !.tasks[k].delay = recoveryDelay(a.retryCount)]

cleanupAudio(a, k) ==
    LET a1 == releaseResources(a)
    IN  IF a1.audioContext = "null"
        THEN afterCleanup(finishCleanup(a1), k)
        ELSE [a1 EXCEPT !.audioContext = "closing", !.tasks[k].pc = "closing"]

attemptRecovery(a, k) == cleanupAudio(updateAudioStatus(a, "recovering"), k)

\* variant: the recoverable flag of the error is not looked at
handleError_AnyError(a, k, err) ==
    LET a1 == emitAudio(a, "error", "", err)
    IN  IF a1.retryCount < maxRetries
        THEN attemptRecovery([a1 EXCEPT !.retryCount = @ + 1], k)
        ELSE LET a2 == rethrow(updateAudioStatus(a1, "error"), err,
                               Catchers(a1.tasks[k]))
             IN  [a2 EXCEPT !.tasks[k].pc = "rejected"]

handleError(a, k, err) ==
    LET a1 == emitAudio(a, "error", "", err)
    IN  IF err.recoverable /\ a1.retryCount < maxRetries
        THEN attemptRecovery([a1 EXCEPT !.retryCount = @ + 1], k)
        ELSE LET a2 == rethrow(updateAudioStatus(a1, "error"), err,
                               Catchers(a1.tasks[k]))
             IN  [a2 EXCEPT !.tasks[k].pc = "rejected"]

\* initialize(config), up to the await on audioContext.resume()
initialize(a, k, cfg, ctorOk) ==
    LET a1 == updateAudioStatus([a EXCEPT !.currentConfig = cfg], "initializing")
    IN  IF ctorOk
        THEN [a1 EXCEPT !.audioContext = "open",
                        !.leakedContexts =
                            @ + (IF a.audioContext = "open" THEN 1 ELSE 0),
                        !.tasks[k].pc = "resume"]
        ELSE handleError(a1, k, ContextCreationFailed)

\* `this.stream = await ...`: a stream that was still held is not stopped
assignStream(a) ==
    [a EXCEPT !.stream = "live",
              !.leakedStreams = @ + (IF a.stream = "live" THEN 1 ELSE 0),
              !.failRun = 0]

setupAudioPipeline(a, nodesOk) ==
    IF a.audioContext = "null" \/ a.stream = "null" \/ ~nodesOk
    THEN [a |-> a, threw |-> TRUE]
    ELSE [a |-> [a EXCEPT !.mediaStreamSource = TRUE, !.processor = TRUE,
                          !.leakedProcessors =
                              @ + (IF a.processor THEN 1 ELSE 0)],
          threw |-> FALSE]

\* initialize() has returned normally, through every enclosing frame
initializeReturns(a, k) ==
    LET task == a.tasks[k]
        a1 == [a EXCEPT !.tasks[k].depth = 0]
    IN  IF task.kind = "startAudio" /\ task.stage = "body"
        THEN IF task.src = "single"
             THEN [updateAudioStatus(a1, "active") EXCEPT !.tasks[k].pc = "resolved"]
             ELSE [a1 EXCEPT !.tasks[k].pc = "micMedia", !.tasks[k].stage = "mic"]
        ELSE [a1 EXCEPT !.tasks[k].pc = "resolved"]

\* setupAudioStream() resumes: getDisplayMedia() has settled
setupAudioStream(a, k, ok, nodesOk) ==
    IF ~ok
    THEN handleError([a EXCEPT !.failRun = Min(@ + 1, MaxFailRun)], k,
                     StreamCreationFailed)
    ELSE LET r == setupAudioPipeline(assignStream(a), nodesOk)
         IN  IF r.threw
             THEN handleError(r.a, k, PipelineSetupFailed)
             ELSE initializeReturns(updateAudioStatus(r.a, "active"), k)

\* setupMicrophoneStream() resumes inside startAudio(): getUserMedia() has settled
setupMicrophoneStream(a, k, ok, nodesOk) ==
    LET a0 == [a EXCEPT !.tasks[k].stage = "catch"]
    IN  IF ~ok
        THEN handleError([a0 EXCEPT !.failRun = Min(@ + 1, MaxFailRun)], k,
                         StreamCreationFailed)
        ELSE LET r == setupAudioPipeline(assignStream(a0), nodesOk)
             IN  IF r.threw
                 THEN handleError(r.a, k, PipelineSetupFailed)
                 ELSE [updateAudioStatus(r.a, "active") EXCEPT
                           !.tasks[k].pc = "resolved"]

\* track.onended of a stream whose handler is still installed
onended(a) ==
    IF a.status = "active"
    THEN LET k == Len(a.tasks) + 1
         IN  handleError([a EXCEPT !.tasks = Append(@, NewTask("event", ""))],
                         k, StreamEnded)
    ELSE a

\* variant: the block is processed whatever the status
handleAudioProcess_NoStatusCheck(a, throws) ==
    IF throws
    THEN LET k == Len(a.tasks) + 1
         IN  handleError([a EXCEPT !.tasks = Append(@, NewTask("event", ""))],
                         k, UnknownError)
    ELSE emitAudio(emitAudio(a, "metricsUpdate", "", NoError),
                   "audioData", "", NoError)

handleAudioProcess(a, throws) ==
    IF a.status # "active" THEN a
    ELSE IF throws
         THEN LET k == Len(a.tasks) + 1
              IN  handleError([a EXCEPT !.tasks = Append(@, NewTask("event", ""))],
                              k, UnknownError)
         ELSE emitAudio(emitAudio(a, "metricsUpdate", "", NoError),
                        "audioData", "", NoError)

CommitAudio(a, op, k, res) ==
    /\ a.leakedContexts <= MaxLeaked
    /\ a.leakedStreams <= MaxLeaked
    /\ a.leakedProcessors <= MaxLeaked
    /\ audioStatus' = a.status
    /\ audioContext' = a.audioContext
    /\ mediaStreamSource' = a.mediaStreamSource
    /\ processor' = a.processor
    /\ stream' = a.stream
    /\ retryCount' = a.retryCount
    /\ currentConfig' = a.currentConfig
    /\ listeners' = a.listeners
    /\ leakedContexts' = a.leakedContexts
    /\ leakedStreams' = a.leakedStreams
    /\ leakedProcessors' = a.leakedProcessors
    /\ tasks' = a.tasks
    /\ failRun' = a.failRun
    /\ audioEmitted' = a.emitted
    /\ audioLast' = [op |-> op, task |-> k, res |-> res, was |-> audioStatus]
    /\ UNCHANGED <<gvars, dvars, mvars>>

\* ------------------------------------------------------------ audio actions
\* on(event, handler): the hook subscribes its handlers
SubscribeOp ==
    /\ ~listeners
    /\ CommitAudio([Aud EXCEPT !.listeners = TRUE], "on", 0, "")

\* initialize(config)
InitializeOp(cfg, ctorOk) ==
    LET k == Len(tasks) + 1
        a == [Aud EXCEPT !.tasks = Append(@, NewTask("initialize", ""))]
    IN  CommitAudio(initialize(a, k, cfg, ctorOk), "initialize", k,
                    IF ctorOk THEN "" ELSE "contextFailed")

\* startAudio(sourceType)
StartAudioOp(src, ctorOk) ==
    LET k == Len(tasks) + 1
        a == [Aud EXCEPT !.tasks = Append(@, NewTask("startAudio", src))]
    IN  CommitAudio(initialize(a, k, a.currentConfig, ctorOk), "startAudio", k,
                    IF ctorOk THEN "" ELSE "contextFailed")

\* cleanup() / stopAudio()
AudioCleanupOp ==
    LET k == Len(tasks) + 1
        a == [Aud EXCEPT !.tasks = Append(@, NewTask("cleanup", ""))]
    IN  CommitAudio(cleanupAudio(a, k), "cleanup", k, "")

\* audioContext.resume() settles
ResumeSettlesOp(k, ok) ==
    /\ tasks[k].pc = "resume"
    /\ CommitAudio(IF ok THEN [Aud EXCEPT !.tasks[k].pc = "getMedia"]
                   ELSE handleError(Aud, k, ContextCreationFailed),
                   "resume", k, IF ok THEN "" ELSE "contextFailed")

\* getDisplayMedia() settles
DisplayMediaSettlesOp(k, ok, nodesOk) ==
    /\ tasks[k].pc = "getMedia"
    /\ CommitAudio(setupAudioStream(Aud, k, ok, nodesOk), "getDisplayMedia", k,
                   IF ~ok THEN "streamFailed"
                   ELSE IF setupAudioPipeline(assignStream(Aud), nodesOk).threw
                        THEN "pipelineFailed" ELSE "acquired")

\* getUserMedia() settles
UserMediaSettlesOp(k, ok, nodesOk) ==
    /\ tasks[k].pc = "micMedia"
    /\ CommitAudio(setupMicrophoneStream(Aud, k, ok, nodesOk), "getUserMedia", k,
                   IF ~ok THEN "streamFailed"
                   ELSE IF setupAudioPipeline(assignStream(Aud), nodesOk).threw
                        THEN "pipelineFailed" ELSE "acquired")

\* audioContext.close() settles
CloseSettlesOp(k) ==
    /\ tasks[k].pc = "closing"
    /\ CommitAudio(afterCleanup(finishCleanup(Aud), k), "close", k, "")

\* the backoff timer of attemptRecovery() fires
RecoveryTimerOp(k, ctorOk) ==
    /\ tasks[k].pc = "delay"
    /\ LET a == [Aud EXCEPT !.tasks[k].depth = Min(@ + 1, MaxDepth)]
       IN  CommitAudio(initialize(a, k, a.currentConfig, ctorOk), "retry", k,
                       IF ctorOk THEN "" ELSE "contextFailed")

\* the track of the held stream ends
TrackEndedOp ==
    /\ stream = "live"
    /\ CommitAudio(onended([Aud EXCEPT !.stream = "ended"]), "ended", 0, "held")

\* the track of a stream the manager no longer references ends
LeakedTrackEndedOp ==
    /\ leakedStreams > 0
    /\ CommitAudio(onended([Aud EXCEPT !.leakedStreams = @ - 1]), "ended", 0, "leaked")

\* a connected processor delivers an audio block
AudioProcessOp(throws) ==
    /\ processor \/ leakedProcessors > 0
    /\ audioContext # "null" \/ leakedContexts > 0 \/ leakedProcessors > 0
    /\ CommitAudio(handleAudioProcess(Aud, throws), "audioprocess", 0,
                   IF throws THEN "threw" ELSE "")

\* ------------------------------------------------------------------------
\* The pipeline under any sequence of user calls and platform events.
Subscribe == SubscribeOp
Initialize ==
    /\ Len(tasks) < MaxTasks
    /\ \E ctorOk \in BOOLEAN : InitializeOp(Len(tasks) + 1, ctorOk)
StartAudio ==
    /\ Len(tasks) < MaxTasks
    /\ \E src \in {"single", "multiple"}, ctorOk \in BOOLEAN : StartAudioOp(src, ctorOk)
AudioCleanup == Len(tasks) < MaxTasks /\ AudioCleanupOp
ResumeSettles == \E k \in 1..Len(tasks), ok \in BOOLEAN : ResumeSettlesOp(k, ok)
DisplayMediaSettles ==
    \E k \in 1..Len(tasks), ok, nodesOk \in BOOLEAN : DisplayMediaSettlesOp(k, ok, nodesOk)
UserMediaSettles ==
    \E k \in 1..Len(tasks), ok, nodesOk \in BOOLEAN : UserMediaSettlesOp(k, ok, nodesOk)
CloseSettles == \E k \in 1..Len(tasks) : CloseSettlesOp(k)
RecoveryTimer == \E k \in 1..Len(tasks), ctorOk \in BOOLEAN : RecoveryTimerOp(k, ctorOk)
TrackEnded == TrackEndedOp /\ Len(tasks') <= MaxTasks
LeakedTrackEnded == LeakedTrackEndedOp /\ Len(tasks') <= MaxTasks
AudioProcess ==
    \E throws \in BOOLEAN : AudioProcessOp(throws) /\ Len(tasks') <= MaxTasks

NextAudio ==
    \/ Subscribe
    \/ Initialize
    \/ StartAudio
    \/ AudioCleanup
    \/ ResumeSettles
    \/ DisplayMediaSettles
    \/ UserMediaSettles
    \/ CloseSettles
    \/ RecoveryTimer
    \/ TrackEnded
    \/ LeakedTrackEnded
    \/ AudioProcess

SpecAudio == Init /\ [][NextAudio]_vars

\* ------------------------------------------------------------------------
\* One initialize() call on a fresh pipeline; the context is always created
\* and resumed, only the capture stream may fail or end.
RetryInitialize == tasks = <<>> /\ InitializeOp(1, TRUE)
RetrySubscribe == SubscribeOp
RetryResumeSettles == \E k \in 1..Len(tasks) : ResumeSettlesOp(k, TRUE)
RetryDisplayMediaSettles ==
    \E k \in 1..Len(tasks), ok \in BOOLEAN : DisplayMediaSettlesOp(k, ok, TRUE)
RetryCloseSettles == \E k \in 1..Len(tasks) : CloseSettlesOp(k)
RetryRecoveryTimer == \E k \in 1..Len(tasks) : RecoveryTimerOp(k, TRUE)
RetryTrackEnded == TrackEndedOp /\ Len(tasks') <= MaxTasks
RetryAudioProcess == AudioProcessOp(FALSE)

NextAudioRetry ==
    \/ RetryInitialize
    \/ RetrySubscribe
    \/ RetryResumeSettles
    \/ RetryDisplayMediaSettles
    \/ RetryCloseSettles
    \/ RetryRecoveryTimer
    \/ RetryTrackEnded
    \/ RetryAudioProcess

SpecAudioRetry == Init /\ [][NextAudioRetry]_vars

\* The same, where every pending promise eventually settles and every armed
\* timer eventually fires.
FairSpecAudioRetry ==
    /\ Init
    /\ [][NextAudioRetry]_vars
    /\ WF_vars(RetryInitialize)
    /\ WF_vars(RetryResumeSettles)
    /\ WF_vars(RetryDisplayMediaSettles)
    /\ WF_vars(RetryCloseSettles)
    /\ WF_vars(RetryRecoveryTimer)

\* ------------------------------------------------------------------------
\* initialize() on a fresh pipeline, and again while it is Active (the
\* processor of the first call stays connected); every platform operation
\* succeeds, and the processing of an audio block may throw.
BlockInitialize ==
    /\ tasks = <<>> \/ audioStatus = "active"
    /\ Len(tasks) < BlockTasks
    /\ InitializeOp(1, TRUE)
BlockSubscribe == SubscribeOp
BlockResumeSettles == \E k \in 1..Len(tasks) : ResumeSettlesOp(k, TRUE)
BlockDisplayMediaSettles == \E k \in 1..Len(tasks) : DisplayMediaSettlesOp(k, TRUE, TRUE)
BlockCloseSettles == \E k \in 1..Len(tasks) : CloseSettlesOp(k)
BlockRecoveryTimer == \E k \in 1..Len(tasks) : RecoveryTimerOp(k, TRUE)
BlockAudioProcess ==
    \E throws \in BOOLEAN : AudioProcessOp(throws) /\ Len(tasks') <= BlockTasks

NextBlocks ==
    \/ BlockInitialize
    \/ BlockSubscribe
    \/ BlockResumeSettles
    \/ BlockDisplayMediaSettles
    \/ BlockCloseSettles
    \/ BlockRecoveryTimer
    \/ BlockAudioProcess

SpecBlocks == Init /\ [][NextBlocks]_vars

\* ------------------------------------------------------------------------
\* initialize() calls where every platform operation may fail: creating or
\* resuming the context, acquiring the stream, creating the nodes.
FaultInitialize ==
    /\ Len(tasks) < MaxTasks
    /\ \E ctorOk \in BOOLEAN : InitializeOp(1, ctorOk)
FaultResumeSettles == \E k \in 1..Len(tasks), ok \in BOOLEAN : ResumeSettlesOp(k, ok)
FaultDisplayMediaSettles ==
    \E k \in 1..Len(tasks), ok, nodesOk \in BOOLEAN : DisplayMediaSettlesOp(k, ok, nodesOk)
FaultCloseSettles == \E k \in 1..Len(tasks) : CloseSettlesOp(k)
FaultRecoveryTimer == \E k \in 1..Len(tasks), ctorOk \in BOOLEAN : RecoveryTimerOp(k, ctorOk)

NextAudioFault ==
    \/ FaultInitialize
    \/ FaultResumeSettles
    \/ FaultDisplayMediaSettles
    \/ FaultCloseSettles
    \/ FaultRecoveryTimer

SpecAudioFault == Init /\ [][NextAudioFault]_vars

\* ------------------------------------------------------------------------
\* Both components under connect() calls and one initialize() call that
\* succeed, and cleanup() calls at any moment.
IdemConnect == ConnectOp(Len(chains) + 1, MaxSockets, MaxChains) /\ UNCHANGED <<now, calls>>
IdemSocketOpen == \E s \in 1..Len(sockets) : SocketOpenOp(s) /\ UNCHANGED <<now, calls>>
IdemCleanup == CleanupOp /\ UNCHANGED <<now, calls>>
IdemInitialize == tasks = <<>> /\ InitializeOp(1, TRUE)
IdemResumeSettles == \E k \in 1..Len(tasks) : ResumeSettlesOp(k, TRUE)
IdemDisplayMediaSettles == \E k \in 1..Len(tasks) : DisplayMediaSettlesOp(k, TRUE, TRUE)
IdemCloseSettles == \E k \in 1..Len(tasks) : CloseSettlesOp(k)
IdemAudioCleanup == Len(tasks) < CleanupTasks /\ AudioCleanupOp

NextCleanup ==
    \/ IdemConnect
    \/ IdemSocketOpen
    \/ IdemCleanup
    \/ IdemInitialize
    \/ IdemResumeSettles
    \/ IdemDisplayMediaSettles
    \/ IdemCloseSettles
    \/ IdemAudioCleanup

SpecCleanup == Init /\ [][NextCleanup]_vars

\* ========================================================================
\* EventDispatcher (src/lib/events.ts)
\* ========================================================================
\* The handler functions of the application, and what each does when it is
\* called: return, throw, or emit the same key again from inside the call
\* (unless it is itself being called by such a nested emit).
Handlers == 1..MaxHandlers

Behaviour(fn) ==
    CASE fn % 3 = 1 -> "plain"
      [] fn % 3 = 2 -> "throws"
      [] OTHER -> "reemit"

Payloads == {"data"}
NestedPayload == "nested"

\* a callback held by the dispatcher: the function fn itself (wrapper = 0)
\* or the wrapper-th onceWrapper closure, which wraps fn
Callback(fn, wrapper) == [fn |-> fn, wrapper |-> wrapper]

\* the dispatcher as a value
Disp ==
    [listeners |-> listenerMap, invoked |-> <<>>, emits |-> 0,
     onceCount |-> onceCount]

Has(callbacks, cb) == \E i \in 1..Len(callbacks) : callbacks[i] = cb

\* variant: a new callback goes to the front
on_Prepend(d, event, cb) ==
    IF Has(d.listeners[event], cb)
    THEN d
    ELSE [d EXCEPT !.listeners[event] = <<cb>> \o @]

\* on(event, callback): Set.add keeps the place of a callback already there
on(d, event, cb) ==
    IF Has(d.listeners[event], cb)
    THEN d
    ELSE [d EXCEPT !.listeners[event] = Append(@, cb)]

\* off(event, callback); an emptied set is removed from the map
off(d, event, cb) ==
    [d EXCEPT !.listeners[event] = SelectSeq(@, LAMBDA x : x # cb)]

\* once(event, callback): a fresh onceWrapper is subscribed
once(d, event, fn) ==
    LET n == d.onceCount + 1
    IN on([d EXCEPT !.onceCount = n], event, Callback(fn, n))

\* removeAllListeners(event?), "" for no argument
removeAllListeners(d, event) ==
    IF event # ""
    THEN [d EXCEPT !.listeners[event] = <<>>]
    ELSE [d EXCEPT !.listeners = [key \in Keys |-> <<>>]]

\* listenerCount(event)
listenerCount(d, event) == Len(d.listeners[event])

RECURSIVE emitEvent(_, _, _)
RECURSIVE forEach(_, _, _, _, _)

\* variant: the wrapper calls the callback first and unsubscribes afterwards
\* (not at all when the callback throws)
callback_OffLast(d, event, cb, data, id) ==
    LET throws == Behaviour(cb.fn) = "throws"
        d1 == [d EXCEPT !.invoked =
                  Append(@, [cb |-> cb, key |-> event, data |-> data,
                             emit |-> id, threw |-> throws])]
        d2 == IF Behaviour(cb.fn) = "reemit" /\ data # NestedPayload
              THEN emitEvent(d1, event, NestedPayload)
              ELSE d1
    IN IF cb.wrapper # 0 /\ ~throws THEN off(d2, event, cb) ELSE d2

\* one callback called by emit number id: a onceWrapper unsubscribes itself
\* and then calls the function it wraps
callback(d, event, cb, data, id) ==
    LET d1 == IF cb.wrapper # 0 THEN off(d, event, cb) ELSE d
        d2 == [d1 EXCEPT !.invoked =
                  Append(@, [cb |-> cb, key |-> event, data |-> data,
                             emit |-> id,
                             threw |-> Behaviour(cb.fn) = "throws"])]
    IN IF Behaviour(cb.fn) = "reemit" /\ data # NestedPayload
       THEN emitEvent(d2, event, NestedPayload)
       ELSE d2

\* variant: an exception of a callback ends the iteration
forEach_Abort(d, event, data, visited, id) ==
    LET callbacks == d.listeners[event]
        pending == {i \in 1..Len(callbacks) : callbacks[i] \notin visited}
    IN IF pending = {}
       THEN d
       ELSE LET i == CHOOSE i \in pending : \A j \in pending : i <= j
                cb == callbacks[i]
            IN IF Behaviour(cb.fn) = "throws"
               THEN callback(d, event, cb, data, id)
               ELSE forEach(callback(d, event, cb, data, id), event, data,
                            visited \cup {cb}, id)

\* callbacks.forEach(...): Set iteration goes in insertion order over the
\* live set, so a callback deleted before its turn is not called; the
\* try/catch around each call swallows what the callback throws
forEach(d, event, data, visited, id) ==
    LET callbacks == d.listeners[event]
        pending == {i \in 1..Len(callbacks) : callbacks[i] \notin visited}
    IN IF pending = {}
       THEN d
       ELSE LET i == CHOOSE i \in pending : \A j \in pending : i <= j
                cb == callbacks[i]
            IN forEach(callback(d, event, cb, data, id), event, data,
                       visited \cup {cb}, id)

\* emit(event, data)
emitEvent(d, event, data) ==
    LET id == d.emits + 1
    IN forEach([d EXCEPT !.emits = id], event, data, {}, id)

\* every call of the dispatcher returns normally: emit catches what the
\* callbacks throw, the other methods throw nothing
CommitDispatcher(d, op, key, data) ==
    /\ listenerMap' = d.listeners
    /\ invoked' = d.invoked
    /\ onceCount' = d.onceCount
    /\ dispLast' = [op |-> op, key |-> key, data |-> data, returned |-> TRUE]
    /\ UNCHANGED <<gvars, avars, mvars>>

OnOp(event, fn) == CommitDispatcher(on(Disp, event, Callback(fn, 0)), "", "", "")
OffOp(event, fn) == CommitDispatcher(off(Disp, event, Callback(fn, 0)), "", "", "")
OnceOp(event, fn) ==
    /\ onceCount < MaxOnce
    /\ CommitDispatcher(once(Disp, event, fn), "", "", "")
EmitOp(event, data) == CommitDispatcher(emitEvent(Disp, event, data), "emit", event, data)
RemoveAllListenersOp(event) ==
    CommitDispatcher(removeAllListeners(Disp, event), "", "", "")

\* The application subscribes and unsubscribes its handlers to both keys,
\* registers once handlers for statusChange, emits both keys and clears
\* one key or all.
\* callbacks subscribed over all keys
Subscribed == Len(listenerMap["statusChange"]) + Len(listenerMap["error"])

On == Subscribed < MaxSubs /\ \E event \in Keys, fn \in Handlers : OnOp(event, fn)
Off == \E event \in Keys, fn \in Handlers : OffOp(event, fn)
Once == Subscribed < MaxSubs /\ \E fn \in Handlers : OnceOp("statusChange", fn)
Emit == \E event \in Keys, data \in Payloads : EmitOp(event, data)
RemoveAllListeners == \E event \in Keys \cup {""} : RemoveAllListenersOp(event)

NextEvents ==
    \/ On
    \/ Off
    \/ Once
    \/ Emit
    \/ RemoveAllListeners

SpecEvents == Init /\ [][NextEvents]_vars

\* ========================================================================
\* Audio metrics (AudioManager.calculateAudioMetrics)
\* ========================================================================
Abs(x) == IF x < 0 THEN -x ELSE x
Max(a, b) == IF a > b THEN a ELSE b

\* the for loop, from sample i on: sumSquares and peak so far in acc
RECURSIVE metricsLoop(_, _, _)
metricsLoop(buffer, i, acc) ==
    IF i > Len(buffer)
    THEN acc
    ELSE LET absolute == Abs(buffer[i])
         IN metricsLoop(buffer, i + 1,
                        [sumSquares |-> acc.sumSquares + absolute * absolute,
                         peak |-> Max(acc.peak, absolute)])

\* variant: a peak of exactly 0.99 counts as clipping
calculateAudioMetrics_Inclusive(buffer) ==
    LET acc == metricsLoop(buffer, 1, [sumSquares |-> 0, peak |-> 0])
    IN [computed |-> TRUE, peak |-> acc.peak, sumSquares |-> acc.sumSquares,
        length |-> Len(buffer), clipping |-> acc.peak >= ClipLevel]

\* calculateAudioMetrics(buffer); average is sumSquares / length, rms its
\* square root and snr a function of rms: the record keeps the two numbers
\* they are computed from
calculateAudioMetrics(buffer) ==
    LET acc == metricsLoop(buffer, 1, [sumSquares |-> 0, peak |-> 0])
    IN [computed |-> TRUE, peak |-> acc.peak, sumSquares |-> acc.sumSquares,
        length |-> Len(buffer), clipping |-> acc.peak > ClipLevel]

\* the blocks the processor delivers
Samples == {-FullScale, -ClipLevel, 0, ClipLevel - 1, ClipLevel, FullScale}
Blocks == UNION {[1..n -> Samples] : n \in 0..MaxBlock}

\* handleAudioProcess measures the block of an audioprocess event
MeasureOp(buffer) ==
    /\ inputData' = buffer
    /\ metrics' = calculateAudioMetrics(buffer)
    /\ UNCHANGED <<gvars, avars, dvars>>

Measure == \E buffer \in Blocks : MeasureOp(buffer)

NextMetrics == Measure

SpecMetrics == Init /\ [][NextMetrics]_vars

\* ========================================================================
\* Claims
\* ========================================================================
InFlight(c) == chains[c].pc \in {"open", "backoff"}

\* C1: when every connection attempt fails, a connect() call makes its
\* initial attempt and at most 5 reconnection attempts; the failure that
\* exhausts the budget sets status Error, rejects the connect() call and
\* leaves no timer or attempt pending; the call never resolves.
C1_RetryBudget ==
    \A c \in 1..Len(chains) :
        /\ chains[c].n <= 1 + maxReconnectAttempts
        /\ chains[c].pc # "resolved"
        /\ chains[c].pc = "rejected" =>
              /\ chains[c].n = 1 + maxReconnectAttempts
              /\ Len(sockets) = 1 + maxReconnectAttempts
              /\ \A s \in 1..Len(sockets) : ~sockets[s].timer
        /\ last.settled = c =>
              /\ chains[c].pc = "rejected"
              /\ status = "error"
              /\ last.op \in {"error", "timeout"}

C1_Witness ==
    /\ Len(chains) = 1
    /\ chains[1].kind = "connect"
    /\ chains[1].pc = "rejected"
    /\ last.settled = 1
    /\ status = "error"

\* ------------------------------------------------------------------ C4
CallsInWindow ==
    Cardinality({i \in 1..Len(calls) : now - calls[i] < messageWindow})

\* frames sent within the last 60 s, the one of the current call excluded
SentInWindowBefore ==
    Cardinality({i \in 1..Len(wire) :
                    /\ now - wire[i].at < messageWindow
                    /\ wire[i].msg # Len(calls)})

Increasing(q) == \A i, j \in 1..Len(q) : i < j => q[i] < q[j]

WireMsgs == [i \in 1..Len(wire) |-> wire[i].msg]

\* C5: frames are sent in the order sendMessage() accepted them (message
\* ids grow with acceptance); a failed send of the head leaves it at the
\* head, ends the flush and is reported as a recoverable error; no flush
\* tries a message before one accepted earlier.
C5_Ordering ==
    /\ Increasing(WireMsgs)
    /\ Increasing(messageQueue)
    /\ \A i \in 1..Len(wire), j \in 1..Len(messageQueue) : wire[i].msg < messageQueue[j]
    /\ Increasing(last.tried)
    /\ (last.tried # <<>> /\ messageQueue # <<>>) =>
           last.tried[Len(last.tried)] <= Head(messageQueue)
    /\ last.res = "sendFailed" =>
          /\ last.rec
          /\ last.tried # <<>>
          /\ messageQueue # <<>>
          /\ Head(messageQueue) = last.tried[Len(last.tried)]

C5_Witness ==
    /\ last.op = "send"
    /\ last.res = "sendFailed"
    /\ last.tried = <<1>>
    /\ messageQueue = <<1, 2>>

\* ------------------------------------------------------------------ C6
\* C6: every open that completes a connect() or a reconnection attempt
\* leaves status Connected, retry counter 0, the heartbeat armed and the
\* queue flushed.
C6_OpenEstablishes ==
    (last.op = "open" /\ last.settled # 0) =>
        /\ status = "connected"
        /\ reconnectAttempts = 0
        /\ heartbeatInterval
        /\ messageQueue = <<>>

\* ------------------------------------------------------------------ C7
ConnectChains == {c \in 1..Len(chains) : chains[c].kind = "connect"}

\* the config passed to the last connect() call that was not a no-op
LastConnectCfg ==
    IF ConnectChains = {} THEN 0
    ELSE CHOOSE c \in ConnectChains : \A d \in ConnectChains : d <= c

\* C7: a close event with a code other than 1000 delivered while Connected
\* sets status Reconnecting and starts a backoff wait; when a backoff wait
\* ends, a new socket is opened for the last session config.
C7_UnexpectedCloseReconnects ==
    /\ (last.op = "close" /\ last.was = "connected" /\ last.code # NormalClosure) =>
          /\ status = "reconnecting"
          /\ last.spawned
          /\ chains[Len(chains)].kind = "close"
          /\ chains[Len(chains)].pc = "backoff"
    /\ last.op = "backoff" =>
          /\ last.sock = Len(sockets)
          /\ ws = last.sock
          /\ sockets[last.sock].rs = "connecting"
          /\ sockets[last.sock].cfg = LastConnectCfg

\* ------------------------------------------------------------------ C8
HasError(evs) == \E i \in 1..Len(evs) : evs[i].ev = "error"

\* C8: cleanup() closes the open connection it holds with code 1000, and
\* the close event of a socket closed that way emits no error and starts
\* no reconnection, whatever the status when it is delivered.
C8_UserCloseIsNormal ==
    /\ \A s \in 1..Len(sockets) :
          sockets[s].rs = "closing" => sockets[s].closeCode = NormalClosure
    /\ (last.op = "cleanup" /\ last.rs = "open") =>
          /\ sockets[last.sock].rs = "closing"
          /\ ws = 0
    /\ (last.op = "close" /\ last.res = "requested") =>
          /\ last.code = NormalClosure
          /\ ~HasError(emitted)
          /\ ~last.spawned
          /\ status = "disconnected"

C8_Witness ==
    /\ last.op = "close"
    /\ last.res = "requested"
    /\ last.was = "connected"

\* ------------------------------------------------------------------ C9
LiveSockets == {s \in 1..Len(sockets) : sockets[s].rs \in {"connecting", "open"}}

\* C9: at most one socket is open or being opened, and connect() starts no
\* attempt while another connect or reconnection sequence is in flight.
C9_SingleConnection ==
    /\ Cardinality(LiveSockets) <= 1
    /\ (last.op = "connect" /\ last.res = "started") =>
          \A c \in 1..(Len(chains) - 1) : ~InFlight(c)

\* ---------------------------------------------------------------- audio
\* C2: when stream acquisition fails with StreamCreationFailed three times
\* in a row, the pipeline status is Error after the 3rd failure and no 4th
\* acquisition attempt is made (so no 4th failure in a row is ever seen).
C2_ThreeStrikes ==
    /\ failRun >= maxRetries => audioStatus = "error"
    /\ failRun <= maxRetries

\* C3: under persistent recoverable failure (no stream is ever acquired) the
\* recovery chain started by initialize() terminates: the retry counter
\* never exceeds 3, and eventually the status is Error and the initialize()
\* call has rejected.
C3_ChainTerminates ==
    /\ [](retryCount <= maxRetries)
    /\ [](stream = "null") =>
           <>(/\ tasks # <<>>
              /\ tasks[1].pc = "rejected"
              /\ audioStatus = "error")

LiveStreams == (IF stream = "live" THEN 1 ELSE 0) + leakedStreams
ConnectedProcessors == (IF processor THEN 1 ELSE 0) + leakedProcessors

\* C10: at any time there is at most one live capture stream and one
\* connected processing stage: a new stream is acquired only after the one
\* held before has been released.
C10_SingleStream ==
    /\ LiveStreams <= 1
    /\ ConnectedProcessors <= 1

\* C11: an initialize() call made while the status is Initializing is
\* rejected and starts no second device acquisition.
C11_ReentrantRejected ==
    (audioLast.op = "initialize" /\ audioLast.was = "initializing") =>
        tasks[audioLast.task].pc = "rejected"

\* C12: across consecutive failed reconnection attempts the delay waited
\* before reconnection attempt k is min(1000 * 2^(k-1), 30000) ms (chain c
\* has made chains[c].n attempts, the initial one included, so it waits for
\* attempt k = chains[c].n); hence the delays never decrease and never
\* exceed 30000 ms.
C12_BackoffDelay ==
    \A c \in 1..Len(chains) :
        chains[c].pc = "backoff" =>
            LET k == chains[c].n
                d == 1000 * 2^(k - 1)
            IN /\ k >= 1
               /\ chains[c].delay = IF d < 30000 THEN d ELSE 30000
               /\ chains[c].delay <= 30000
               /\ k > 1 => chains[c].delay >= 1000 * 2^(k - 2)

C12_Witness ==
    \E c \in 1..Len(chains) :
        /\ chains[c].pc = "backoff"
        /\ chains[c].n = maxReconnectAttempts
        /\ chains[c].delay = 16000
        /\ last.op \in {"error", "timeout"}

\* C13: whenever a connection opens the reconnection attempt counter is 0,
\* so an unexpected close delivered while Connected finds the counter at 0:
\* it gets the full budget of 5 attempts and its backoff starts at 1000 ms.
C13_FullBudgetAfterOpen ==
    /\ last.op = "open" => reconnectAttempts = 0
    /\ (last.op = "close" /\ last.was = "connected" /\ last.code # NormalClosure) =>
          /\ reconnectAttempts = 0
          /\ last.spawned
          /\ chains[Len(chains)].pc = "backoff"
          /\ chains[Len(chains)].delay = reconnectBaseDelay

\* ------------------------------------------------------------------ C14
\* the fields of the session manager / of the pipeline, without the events
Quiet(r) == [r EXCEPT !.emitted = <<>>]

CleanedUp(a) == finishCleanup(releaseResources(Quiet(a)))

CleanupTaskDone(k) ==
    /\ k \in 1..Len(tasks)
    /\ tasks[k].kind = "cleanup"
    /\ tasks[k].pc = "resolved"

\* C14: cleanup() is idempotent on both components: from any state,
\* whether or not the instance was ever connected/initialized, a cleanup()
\* raises no error and leaves status Disconnected / Inactive, and a second
\* cleanup() run right after it (nothing else happening in between) leaves
\* the same state as the first.
C14_CleanupIdempotent ==
    /\ LET m1 == cleanup(Mgr)
       IN /\ m1.status = "disconnected"
          /\ Quiet(cleanup(Quiet(m1))) = Quiet(m1)
    /\ last.op = "cleanup" => status = "disconnected" /\ ws = 0
    /\ LET a1 == CleanedUp(Aud)
       IN /\ a1.status = "inactive"
          /\ Quiet(CleanedUp(a1)) = Quiet(a1)
    /\ \A k \in 1..Len(tasks) : tasks[k].kind = "cleanup" => tasks[k].pc # "rejected"
    /\ (audioLast.op \in {"cleanup", "close"} /\ CleanupTaskDone(audioLast.task)) =>
          /\ audioStatus = "inactive"
          /\ audioContext = "null"
          /\ retryCount = 0

\* a pipeline that was used and then cleaned up twice in a row, and a
\* session manager cleaned up while already Disconnected
C14_Witness ==
    /\ Len(tasks) = 3
    /\ tasks[1].kind = "initialize"
    /\ CleanupTaskDone(2)
    /\ CleanupTaskDone(3)
    /\ audioLast.op = "cleanup"
    /\ audioLast.task = 3
    /\ last.op = "cleanup"
    /\ last.was = "disconnected"

\* C15: immediately after cleanup() returns, from any prior state, the
\* heartbeat timer is stopped, the outbound queue and the rate-limit window
\* are empty, no connection handle is held and the status is Disconnected.
C15_CleanupResets ==
    last.op = "cleanup" =>
        /\ ~heartbeatInterval
        /\ messageQueue = <<>>
        /\ messageTimestamps = <<>>
        /\ ws = 0
        /\ status = "disconnected"

\* cleanup() of a Connected manager that has sent a frame
C15_Witness ==
    /\ last.op = "cleanup"
    /\ last.was = "connected"
    /\ last.rs = "open"
    /\ wire # <<>>
    /\ ~heartbeatInterval

\* C16: cleanup() resets all in-memory state, the reconnection attempt
\* counter included, so that a connect() issued after it has the full
\* budget of 5 reconnection attempts again.
C16_CleanupResetsCounter ==
    last.op = "cleanup" => reconnectAttempts = 0

\* C17: terminal Error is sticky on both components: when the status was
\* Error before a step, it still is after it unless the step is an explicit
\* connect()/cleanup() call (session manager) or initialize()/startAudio()/
\* cleanup() call (audio pipeline).
C17_ErrorIsSticky ==
    /\ (last.was = "error" /\ last.op \notin {"connect", "cleanup"}) =>
          status = "error"
    /\ (audioLast.was = "error" /\
        audioLast.op \notin {"initialize", "startAudio", "cleanup"}) =>
          audioStatus = "error"

\* C18: if the initial attempt of connect() fails and a later reconnection
\* attempt of the same call opens, the connect() call resolves (it never
\* rejects before), the status is Connected, and the failures were only
\* emitted as events.
C18_RetryResolvesConnect ==
    /\ (last.op = "open" /\ last.settled # 0) =>
          /\ chains[last.settled].pc = "resolved"
          /\ status = "connected"
    /\ \A c \in 1..Len(chains) :
          chains[c].pc = "rejected" => reconnectAttempts >= maxReconnectAttempts

C18_Witness ==
    /\ last.op = "open"
    /\ last.settled # 0
    /\ chains[last.settled].kind = "connect"
    /\ chains[last.settled].n >= 2
    /\ chains[last.settled].pc = "resolved"
    /\ status = "connected"

\* ------------------------------------------------------------------ C19
AudioEvents(ev) == {i \in 1..Len(audioEmitted) : audioEmitted[i].ev = ev}

\* C19: a non-recoverable error during initialize (ContextCreationFailed or
\* PipelineSetupFailed) emits an error event with recoverable = false, sets
\* status Error, makes the initialize() call reject, and neither enters
\* Recovering nor schedules a retry, whatever the retry counter is.
C19_NonRecoverableFails ==
    audioLast.res \in {"contextFailed", "pipelineFailed"} =>
        /\ audioStatus = "error"
        /\ tasks[audioLast.task].pc = "rejected"
        /\ \E i \in AudioEvents("error") : ~audioEmitted[i].recoverable
        /\ \A i \in AudioEvents("statusChange") : audioEmitted[i].status # "recovering"

\* a node creation that fails while another chain's retry has been counted
C19_Witness ==
    /\ audioLast.res = "pipelineFailed"
    /\ retryCount > 0
    /\ audioStatus = "error"
    /\ tasks[audioLast.task].pc = "rejected"

\* C20: connect() called while the status is Connected or Connecting is a
\* no-op: status, stored session config, connection handle, retry counter
\* and heartbeat timer are unchanged (as are sockets, call chains and the
\* queue), and no event is emitted.
C20_ConnectNoOp ==
    [][(status \in {"connected", "connecting"} /\ last'.op = "connect") =>
          /\ last'.res = "noop"
          /\ emitted' = <<>>
          /\ UNCHANGED <<status, sessionConfig, ws, reconnectAttempts,
                         heartbeatInterval, sockets, chains, messageQueue,
                         messageTimestamps>>]_vars

C20_Witness ==
    /\ last.op = "connect"
    /\ last.res = "noop"
    /\ last.was = "connected"
    /\ heartbeatInterval
    /\ sessionConfig # 0
    /\ sessionConfig # Len(chains) + 1

\* the text a part contributes to the message
TextOf(part) == IF part.defined THEN part.text ELSE <<>>

\* the number of characters the parts before part i contribute
RECURSIVE Offset(_, _)
Offset(parts, i) ==
    IF i <= 1 THEN 0 ELSE Offset(parts, i - 1) + Len(TextOf(parts[i - 1]))

Events(key) == {i \in 1..Len(emitted) : emitted[i].ev = key}

\* C21: a content frame with a model turn yields exactly one message event
\* whose text is the frame's text parts one after the other, in order, and
\* an interrupted event, after the message event, iff the frame is flagged
\* interrupted; nothing else is emitted.
C21_ContentFrame ==
    (last.op = "message" /\ last.frame.kind = "content" /\ last.frame.hasTurn) =>
        LET parts == last.frame.parts
        IN /\ Events("message") = {1}
           /\ Len(emitted[1].content) = Offset(parts, Len(parts) + 1)
           /\ \A i \in 1..Len(parts) : \A j \in 1..Len(TextOf(parts[i])) :
                  emitted[1].content[Offset(parts, i) + j] = TextOf(parts[i])[j]
           /\ IF last.frame.interrupted
              THEN Len(emitted) = 2 /\ emitted[2].ev = "interrupted"
              ELSE Len(emitted) = 1

\* the frame of the scenario: "Hi" then " there", no interrupted flag
C21_Witness ==
    /\ last.op = "message"
    /\ last.frame.kind = "content"
    /\ last.frame.hasTurn
    /\ ~last.frame.interrupted
    /\ last.frame.parts = <<[defined |-> TRUE, text |-> <<"H", "i">>],
                            [defined |-> TRUE,
                             text |-> <<" ", "t", "h", "e", "r", "e">>]>>
    /\ emitted = <<MessageEv(<<"H", "i", " ", "t", "h", "e", "r", "e">>)>>

\* C22 as stated: every remote error frame, whatever its code, yields
\* exactly one error event carrying that code, recoverable iff code >= 500.
C22_EveryErrorFrame ==
    (last.op = "message" /\ last.frame.kind = "error") =>
        /\ Len(emitted) = 1
        /\ emitted[1].ev = "error"
        /\ emitted[1].code = last.frame.code
        /\ emitted[1].recoverable = (last.frame.code >= 500)

\* C22: a remote error frame with a non-zero code yields exactly one error
\* event carrying that code, recoverable iff code >= 500; a frame whose code
\* is 0 yields no event at all.
C22_ErrorFrame ==
    (last.op = "message" /\ last.frame.kind = "error") =>
        IF last.frame.code # 0
        THEN /\ Len(emitted) = 1
             /\ emitted[1].ev = "error"
             /\ emitted[1].code = last.frame.code
             /\ emitted[1].recoverable = (last.frame.code >= 500)
        ELSE emitted = <<>>

\* the frame of the scenario: code 503
C22_Witness ==
    /\ last.op = "message"
    /\ last.frame.kind = "error"
    /\ last.frame.code = 503
    /\ emitted = <<ErrorEv(TRUE, 503)>>

\* C23: an unparsable frame yields one error event with recoverable = FALSE,
\* the handler returns normally, status, queue and retry counter (and the
\* sockets) are as before, and a content frame received next is turned into
\* its message event.
C23_UnparsableFrame ==
    [][/\ (last'.op = "message" /\ last'.frame.kind = "unparsable") =>
            /\ Len(emitted') = 1
            /\ emitted'[1].ev = "error"
            /\ ~emitted'[1].recoverable
            /\ last'.res = "returned"
            /\ status' = status
            /\ messageQueue' = messageQueue
            /\ reconnectAttempts' = reconnectAttempts
            /\ sockets' = sockets
            /\ ws' = ws
       /\ (/\ last.op = "message" /\ last.frame.kind = "unparsable"
           /\ last'.op = "message" /\ last'.frame.kind = "content"
           /\ last'.frame.hasTurn) =>
            (Len(emitted') >= 1 /\ emitted'[1].ev = "message")]_vars

C23_Witness ==
    /\ last.op = "message"
    /\ last.frame.kind = "unparsable"
    /\ emitted = <<ErrorEv(FALSE, 0)>>
    /\ status = "connected"
    /\ sockets[last.sock].rs = "open"

\* the place of a callback in a key's callbacks
Index(callbacks, cb) == CHOOSE i \in 1..Len(callbacks) : callbacks[i] = cb

\* the callbacks two lists share are in the same order in both
SameOrder(before, after) ==
    \A i, j \in 1..Len(before) :
        (i < j /\ Has(after, before[i]) /\ Has(after, before[j])) =>
            Index(after, before[i]) < Index(after, before[j])

\* the entries of the log that emit number id made
CalledBy(log, id) == {i \in 1..Len(log) : log[i].emit = id}

\* a onceWrapper that another emit than number id, nested in it or
\* enclosing it, has called (and so unsubscribed) before its turn came
Consumed(log, cb, id) ==
    cb.wrapper # 0 /\ \E i \in 1..Len(log) : log[i].cb = cb /\ log[i].emit # id

C25_ThrowingHandlerIsolated ==
    [][dispLast'.op = "emit" =>
          LET subscribed == listenerMap[dispLast'.key]
              log == invoked'
          IN /\ \A i \in 1..Len(log) : \A k \in 1..Len(subscribed) :
                    (log[i].threw /\ Index(subscribed, log[i].cb) < k) =>
                        \/ \E j \in 1..Len(log) :
                               /\ i < j
                               /\ log[j].cb = subscribed[k]
                               /\ log[j].emit = log[i].emit
                               /\ log[j].data = log[i].data
                        \/ Consumed(log, subscribed[k], log[i].emit)
             /\ dispLast'.returned
             /\ UNCHANGED <<gvars, avars>>]_vars

\* a handler that throws, subscribed first, and the two behind it called
C25_Witness ==
    /\ dispLast.op = "emit"
    /\ Len(invoked) = 3
    /\ invoked[1].threw
    /\ ~invoked[2].threw
    /\ \A i \in 1..3 : invoked[i].emit = 1 /\ invoked[i].data = dispLast.data
    /\ dispLast.returned

\* the wrappers once() has created that are subscribed to some key
SubscribedWrappers ==
    {n \in 1..onceCount :
        \E key \in Keys : \E i \in 1..Len(listenerMap[key]) :
            listenerMap[key][i].wrapper = n}

\* C26: a handler registered with once is called only while its wrapper is
\* subscribed, at most once by one emit call (nested emits and a throwing
\* handler included), is not among the subscribers of any key once that
\* emit returns, and a wrapper that is no longer subscribed never is again:
\* it is called at most once over any sequence of emits.
C26_OnceAtMostOnce ==
    [][/\ \A i \in 1..Len(invoked') :
            invoked'[i].cb.wrapper # 0 =>
                /\ invoked'[i].cb.wrapper \in SubscribedWrappers
                /\ invoked'[i].cb.wrapper \notin SubscribedWrappers'
                /\ \A j \in 1..Len(invoked') :
                       invoked'[j].cb = invoked'[i].cb => j = i
       /\ \A n \in 1..onceCount :
            n \notin SubscribedWrappers => n \notin SubscribedWrappers'
       /\ \A key \in Keys :
            listenerCount(Disp, key)' = Len(listenerMap'[key])]_vars

\* one emit called a once handler that emits the key again from inside and
\* a once handler that throws; both are gone from the subscribers
C26_Witness ==
    /\ dispLast.op = "emit"
    /\ \E i, j \in 1..Len(invoked) :
          /\ invoked[i].cb.wrapper # 0
          /\ Behaviour(invoked[i].cb.fn) = "reemit"
          /\ invoked[i].emit = 1
          /\ invoked[j].cb.wrapper # 0
          /\ invoked[j].threw
          /\ invoked[j].emit = 2
    /\ SubscribedWrappers = {}
    /\ listenerCount(Disp, dispLast.key) = 0

\* the largest absolute sample of a block, 0 for a block without samples
PeakOf(buffer) ==
    IF buffer = <<>>
    THEN 0
    ELSE CHOOSE p \in {Abs(buffer[i]) : i \in 1..Len(buffer)} :
             \A i \in 1..Len(buffer) : Abs(buffer[i]) <= p

\* C27: the metrics of every block report its largest absolute sample as
\* the peak, and clipping exactly when that peak is above 0.99 of full scale.
C27_ClippingIffPeakAbove ==
    metrics.computed =>
        /\ metrics.peak = PeakOf(inputData)
        /\ metrics.clipping = (PeakOf(inputData) > ClipLevel)

\* a block whose peak is a negative sample at full scale
C27_Witness ==
    /\ metrics.computed
    /\ inputData = <<ClipLevel, -FullScale, 0>>
    /\ metrics.peak = FullScale
    /\ metrics.clipping

\* frames the flush handed to an open socket during the last 60 seconds
SentInWindow ==
    {i \in 1..Len(wire) : wire[i].delivered /\ now - wire[i].at < messageWindow}

\* C28: whatever the operations, cleanup() followed by connect() included,
\* at most 100 message frames are transmitted within any 60 seconds.
C28_WindowCap == Cardinality(SentInWindow) <= maxMessagesPerMinute

\* C29: a message in the queue stays there, in its place, until it is
\* transmitted or the user calls cleanup(): no connection timeout and no
\* failed reconnection removes it.
C29_QueuedUntilSent ==
    [][\A i \in 1..Len(messageQueue) :
          \/ \E j \in 1..Len(messageQueue') : messageQueue'[j] = messageQueue[i]
          \/ \E j \in 1..Len(wire') : j > Len(wire) /\ wire'[j].msg = messageQueue[i]
          \/ last'.op = "cleanup"]_vars

\* C30: while the manager is Connected and sends succeed, a non-empty queue
\* is eventually drained (or the manager leaves Connected) without any
\* further sendMessage call.
C30_QueueDrains ==
    (status = "connected" /\ messageQueue # <<>>)
        ~> (messageQueue = <<>> \/ status # "connected")

\* C31: a sendMessage call rejected by the rate limit leaves the queue as it
\* was (the payload is not enqueued), hands nothing to the socket, and
\* changes neither the status nor the retry counter; the error it raises is
\* not recoverable.
C31_RejectedSendHasNoEffect ==
    [][(last'.op = "send" /\ last'.res = "rateLimited") =>
          /\ messageQueue' = messageQueue
          /\ wire' = wire
          /\ status' = status
          /\ reconnectAttempts' = reconnectAttempts
          /\ ws' = ws
          /\ emitted' = <<>>
          /\ ~last'.rec]_vars

\* the 101st call of a minute is rejected with 100 frames on the wire
C31_Witness ==
    /\ last.op = "send"
    /\ last.res = "rateLimited"
    /\ Len(wire) = maxMessagesPerMinute
    /\ Len(calls) = maxMessagesPerMinute + 1
    /\ messageQueue = <<>>
    /\ reconnectAttempts = 0

\* C32: cleanup() called while a connect or reconnection sequence is
\* suspended raises nothing and settles no sequence: it leaves the manager
\* disconnected without a socket and keeps the session config; a sequence
\* that resumes from its backoff wait then opens a new socket with that
\* config and raises no error.
C32_CleanupThenResume ==
    [][/\ last'.op = "cleanup" =>
            /\ status' = "disconnected"
            /\ ws' = 0
            /\ sessionConfig' = sessionConfig
            /\ chains' = chains
            /\ emitted' = <<StatusEv("disconnected")>>
       /\ last'.op = "backoff" =>
            /\ sessionConfig' = sessionConfig
            /\ sessionConfig # 0
            /\ sockets' = Append(sockets, NewSocket(sessionConfig))
            /\ ws' = Len(sockets')
            /\ emitted' = <<>>
            /\ \E c \in 1..Len(chains) :
                  /\ chains[c].pc = "backoff"
                  /\ chains'[c].pc = "open"
                  /\ chains'[c].sock = ws']_vars

\* a sequence suspended in its backoff wait when cleanup() ran has resumed
\* and is awaiting the open event of a socket built from the session config
C32_Witness ==
    /\ last.op = "backoff"
    /\ last.was = "disconnected"
    /\ status = "disconnected"
    /\ ws # 0
    /\ sockets[ws].cfg = sessionConfig
    /\ Awaiting(Mgr, ws)

\* C33: whenever the status is Connected the manager holds a socket, and a
\* socket whose open event has just made the manager Connected is that
\* socket.
C33_ConnectedHoldsOpener ==
    /\ status = "connected" => ws # 0
    /\ (last.op = "open" /\ status = "connected") => ws = last.sock

\* C34: an open, close, error or message event of a socket that is not the
\* manager's current socket leaves the status as it was and starts no
\* reconnection.
C34_StaleSocketIgnored ==
    [][(/\ last'.op \in {"open", "close", "error", "message"}
        /\ last'.sock # ws) =>
          /\ status' = status
          /\ chains' = chains]_vars

\* C35: once the status is Reconnecting it stays Reconnecting until the
\* attempt succeeds (Connected), the budget is exhausted (Error) or
\* cleanup() is called; no socket event moves it to Disconnected.
C35_ReconnectingUntilSettled ==
    [][(status = "reconnecting" /\ status' # "reconnecting") =>
          \/ last'.op = "cleanup"
          \/ status' \in {"connected", "error"}]_vars

\* C36: handlers that are subscribed stay subscribed through a recoverable
\* failure and its automatic recovery: only the caller's own cleanup() call
\* unsubscribes them.
C36_RecoveryKeepsHandlers ==
    [][(listeners /\ audioLast'.op # "cleanup") => listeners']_vars

\* C37: when a recovery sequence that has already waited once enters its
\* next backoff wait, the base delay of the new wait is twice the base delay
\* of the previous one, capped at 30000 ms.
C37_DelayDoubles ==
    [][\A k \in 1..Len(tasks) :
          (/\ tasks[k].pc # "delay"
           /\ tasks[k].delay > 0
           /\ tasks'[k].pc = "delay") =>
              tasks'[k].delay = Min(2 * tasks[k].delay, maxRecoveryDelay)]_vars

\* chains started by the block callback that have not settled
BlockChains ==
    {k \in 1..Len(tasks) : tasks[k].kind = "event"
                           /\ tasks[k].pc \notin {"resolved", "rejected"}}

\* C38: a block delivered while the status is not Active emits nothing and
\* changes nothing; a block delivered while Active emits metricsUpdate and
\* then audioData; a block whose processing throws raises a recoverable
\* UNKNOWN error, takes the pipeline out of Active and starts one recovery
\* chain, so that at most one such chain is ever in flight.
C38_BlockCallback ==
    [][audioLast'.op = "audioprocess" =>
         /\ Cardinality(BlockChains') <= 1
         /\ IF audioStatus # "active"
            THEN /\ audioEmitted' = <<>>
                 /\ UNCHANGED <<audioStatus, tasks, retryCount, listeners,
                                processor, stream, audioContext>>
            ELSE IF audioLast'.res = "threw"
                 THEN /\ Len(tasks') = Len(tasks) + 1
                      /\ tasks'[Len(tasks')].kind = "event"
                      /\ audioEmitted'[1].ev = "error"
                      /\ audioEmitted'[1].type = "UNKNOWN"
                      /\ audioEmitted'[1].recoverable
                      /\ audioStatus' # "active"
                 ELSE /\ Len(audioEmitted') = 2
                      /\ audioEmitted'[1].ev = "metricsUpdate"
                      /\ audioEmitted'[2].ev = "audioData"
                      /\ UNCHANGED <<audioStatus, tasks, retryCount>>]_vars

\* a further block arrives while the chain started by a throwing block is
\* still recovering
C38_Witness ==
    /\ audioLast.op = "audioprocess"
    /\ audioLast.res = "threw"
    /\ audioLast.was # "active"
    /\ Cardinality(BlockChains) = 1
    /\ audioEmitted = <<>>

\* no initialize, recovery or cleanup sequence is suspended
AudioQuiescent ==
    \A k \in 1..Len(tasks) : tasks[k].pc \in {"resolved", "rejected"}

\* C39: whenever the status is Inactive or Error and no sequence is in
\* flight, the pipeline holds no stream, no processing stage and no open
\* context, referenced or not.
C39_NoResourcesAtRest ==
    (audioStatus \in {"inactive", "error"} /\ AudioQuiescent) =>
        /\ stream = "null"
        /\ ~processor
        /\ ~mediaStreamSource
        /\ audioContext = "null"
        /\ leakedStreams = 0
        /\ leakedProcessors = 0
        /\ leakedContexts = 0

====
